---- MODULE Spec2Model ----
(***************************************************************************)
(* Company-research assistant: backend selection (agents.py get_llm), the  *)
(* agent registry built when agents.py is imported, the task builders, the *)
(* sequential crew run started from the Streamlit script (main.py) and the *)
(* page-fetch tool (tools.py).                                             *)
(*                                                                         *)
(* One process, one thread of control.  main.py line 4 imports agents.py,  *)
(* whose module body creates the five agents; main.py line 10 then loads   *)
(* the environment file; main() draws the sidebar and the form, and a      *)
(* submitted form runs a crew to its end before the script returns.        *)
(* Streamlit executes main.py again on every interaction; the imported     *)
(* agents module is not executed again.                                    *)
(***************************************************************************)
EXTENDS Integers, Sequences, FiniteSets, TLC

VARIABLES
    env,        \* os.environ restricted to the three variables the code reads
    dotfile,    \* what the environment file offers to load_dotenv()
    pc,         \* "import" | "idle" | "running" | "crashed"
    agents,     \* module-level agents of agents.py, by name
    creations,  \* how many times create_agent built each agent
    llmCall,    \* the last get_llm call: environment before/after, selection
    selections, \* every (credential combination, selection) get_llm produced
    run,        \* the crew run of the current script execution
    ui,         \* what the form area of the page shows
    observation, \* the tool result the agent of the running task last received
    extraction, \* the last DataExtractor._run call (tools.py)
    dispatch,   \* the last CustomOllama call: what each call mode sent to litellm
    research_cache, \* st.session_state.research_cache (utils.py)
    lookup,     \* the last get_cached_results call
    limiter,    \* a RateLimiter object (utils.py)
    granted,    \* the times at which make_request returned True
    lastRequest, \* the last RateLimiter call
    clock       \* datetime.now() / time.time(), in seconds

mainVars == <<env, dotfile, pc, agents, creations, llmCall, selections, run, ui, observation>>
utilVars == <<extraction, dispatch, research_cache, lookup, limiter, granted, lastRequest, clock>>
vars == <<mainVars, utilVars>>

(***************************************************************************)
(* Environment                                                             *)
(***************************************************************************)
Unset == "<unset>"                       \* os.getenv(name) is None
DefaultBase == "http://localhost:11434"
EnvVars == {"XAI_API_KEY", "OPENAI_API_KEY", "OLLAMA_API_BASE"}
KeyVals == {Unset, "", "key"}
BaseVals == {Unset, "", "http://gpu:11434"}
EnvDomain(v) == IF v = "OLLAMA_API_BASE" THEN BaseVals ELSE KeyVals
\* the environment the process is started with
InitialEnvironments == {e \in [EnvVars -> BaseVals \cup KeyVals] : \A v \in EnvVars : e[v] \in EnvDomain(v)}
\* an environment file may carry either provider key, or neither
DotFiles == {f \in [EnvVars -> {Unset, "key"}] : f["OLLAMA_API_BASE"] = Unset}

\* Python truthiness of os.getenv(name): None and "" are false
Truthy(v) == v /= Unset /\ v /= ""

\* os.getenv(name, default)
getenv(e, name, default) == IF e[name] = Unset THEN default ELSE e[name]

(***************************************************************************)
(* Backend configurations (agents.py lines 10-14, 65-71, 76-80)            *)
(***************************************************************************)
NoLlm == [provider |-> "none", model |-> "", base_url |-> "", api_key |-> Unset, max_tokens |-> 0]

GrokLlm(e) ==
    [provider |-> "xai", model |-> "grok", base_url |-> "https://api.x.ai/v1",
     api_key |-> e["XAI_API_KEY"], max_tokens |-> 2000]

OpenAILlm(e) ==
    [provider |-> "openai", model |-> "gpt-3.5-turbo", base_url |-> "<openai default>",
     api_key |-> e["OPENAI_API_KEY"], max_tokens |-> 2000]

\* CustomOllama(): the class attributes, not the environment, give its base_url
CustomOllama ==
    [provider |-> "ollama", model |-> "ollama/tinyllama", base_url |-> DefaultBase,
     api_key |-> Unset, max_tokens |-> 1000]

(***************************************************************************)
(* get_llm (agents.py lines 60-89).  ollamaOk: whether CustomOllama() can  *)
(* be constructed.  The result carries the environment the call leaves     *)
(* behind and the line it printed.                                         *)
(***************************************************************************)
get_llm_openai_first(e, ollamaOk) ==
    IF Truthy(e["OPENAI_API_KEY"]) THEN
        [raised |-> FALSE, llm |-> OpenAILlm(e), env |-> e, log |-> "Using OpenAI gpt-3.5-turbo"]
    ELSE IF Truthy(e["XAI_API_KEY"]) THEN
        [raised |-> FALSE, llm |-> GrokLlm(e), env |-> e, log |-> "Using xAI Grok"]
    ELSE
        [raised |-> ~ollamaOk, llm |-> IF ollamaOk THEN CustomOllama ELSE NoLlm,
         env |-> [e EXCEPT !["OLLAMA_API_BASE"] = getenv(e, "OLLAMA_API_BASE", DefaultBase)],
         log |-> "Using Ollama tinyllama"]

get_llm_base_when_set(e, ollamaOk) ==
    IF Truthy(e["XAI_API_KEY"]) THEN
        [raised |-> FALSE, llm |-> GrokLlm(e), env |-> e, log |-> "Using xAI Grok"]
    ELSE IF Truthy(e["OPENAI_API_KEY"]) THEN
        [raised |-> FALSE, llm |-> OpenAILlm(e), env |-> e, log |-> "Using OpenAI gpt-3.5-turbo"]
    ELSE
        [raised |-> ~ollamaOk, llm |-> IF ollamaOk THEN CustomOllama ELSE NoLlm,
         env |-> [e EXCEPT !["OLLAMA_API_BASE"] = DefaultBase],
         log |-> "Using Ollama tinyllama"]

get_llm(e, ollamaOk) ==
    IF Truthy(e["XAI_API_KEY"]) THEN
        [raised |-> FALSE, llm |-> GrokLlm(e), env |-> e, log |-> "Using xAI Grok"]
    ELSE IF Truthy(e["OPENAI_API_KEY"]) THEN
        [raised |-> FALSE, llm |-> OpenAILlm(e), env |-> e, log |-> "Using OpenAI gpt-3.5-turbo"]
    ELSE
        \* line 85 runs before the constructor, so it takes effect even when
        \* the constructor raises
        [raised |-> ~ollamaOk, llm |-> IF ollamaOk THEN CustomOllama ELSE NoLlm,
         env |-> [e EXCEPT !["OLLAMA_API_BASE"] = getenv(e, "OLLAMA_API_BASE", DefaultBase)],
         log |-> "Using Ollama tinyllama"]

\* the credential combination a get_llm call saw
Credentials(e) ==
    [xai |-> Truthy(e["XAI_API_KEY"]), openai |-> Truthy(e["OPENAI_API_KEY"]),
     base |-> e["OLLAMA_API_BASE"] /= Unset]

NoCall == [made |-> FALSE, before |-> [v \in EnvVars |-> Unset], after |-> [v \in EnvVars |-> Unset],
           raised |-> FALSE, llm |-> NoLlm, log |-> ""]

(***************************************************************************)
(* Agent registry (agents.py lines 92-156)                                 *)
(***************************************************************************)
AgentOrder == <<"WebResearcher", "DataExtractor", "ReportEditor", "MarketAnalyst", "NewsAnalyst">>
AgentNames == {AgentOrder[i] : i \in 1..Len(AgentOrder)}

\* the tools= argument of each create_agent call
RoleTools(name) ==
    CASE name = "WebResearcher" -> {"scrape_website", "find_company_website"}
      [] name = "DataExtractor" -> {"scrape_website", "extract_data"}
      [] name = "ReportEditor"  -> {"extract_data"}
      [] name = "MarketAnalyst" -> {"scrape_website", "find_company_website"}
      [] name = "NewsAnalyst"   -> {"scrape_website", "find_company_website"}

RoleTitle(name) ==
    CASE name = "WebResearcher" -> "Web Research Specialist"
      [] name = "DataExtractor" -> "Data Extraction Specialist"
      [] name = "ReportEditor"  -> "Research Report Editor"
      [] name = "MarketAnalyst" -> "Market Analysis Specialist"
      [] name = "NewsAnalyst"   -> "News Analysis Specialist"

max_iter == 3

NoAgent == [role |-> "", tools |-> {}, llm |-> NoLlm, max_iter |-> 0,
            allow_delegation |-> FALSE, memory |-> FALSE]

\* lines 95-106, given the llm of line 93 and the environment get_llm left
use_tools_xai_only(e, tools) ==
    IF Truthy(e["XAI_API_KEY"]) THEN tools ELSE {}

use_tools(e, tools) ==
    IF Truthy(e["XAI_API_KEY"]) \/ Truthy(e["OPENAI_API_KEY"]) THEN tools ELSE {}

create_agent(e, role, tools, llm) ==
    [role |-> role, tools |-> use_tools(e, tools), llm |-> llm, max_iter |-> max_iter,
     allow_delegation |-> FALSE, memory |-> TRUE]

(***************************************************************************)
(* Task builders (agents.py lines 159-279).  A task is its assigned agent, *)
(* the kind of work and the company name its description embeds.           *)
(***************************************************************************)
Task(kind, agent, company_name) == [kind |-> kind, agent |-> agent, company |-> company_name]

create_research_tasks_report_first(company_name) ==
    << Task("report", "ReportEditor", company_name),
       Task("research", "WebResearcher", company_name),
       Task("extraction", "DataExtractor", company_name),
       Task("market", "MarketAnalyst", company_name),
       Task("news", "NewsAnalyst", company_name) >>

create_research_tasks(company_name) ==
    << Task("research", "WebResearcher", company_name),
       Task("extraction", "DataExtractor", company_name),
       Task("market", "MarketAnalyst", company_name),
       Task("news", "NewsAnalyst", company_name),
       Task("report", "ReportEditor", company_name) >>

create_basic_research_tasks(company_name) ==
    << Task("research", "WebResearcher", company_name),
       Task("extraction", "DataExtractor", company_name),
       Task("report", "ReportEditor", company_name) >>

(***************************************************************************)
(* The crew run (agents.py lines 282-310): Crew(..., Process.sequential)   *)
(* and crew.kickoff().                                                     *)
(***************************************************************************)
ResearchTypes == {"Basic Research", "Comprehensive Research"}
CompanyNames == {"Acme", "Tesla"}

NoOutput == [kind |-> "", company |-> "", by |-> ""]
NoFailure == [cause |-> "", markers |-> {}]

\* what str(e) of an exception leaving crew.kickoff() contains, among the
\* substrings main.py lines 95-99 look for
Markers == {"litellm.APIConnectionError", "Timeout", "litellm.BadRequestError", "Ollama"}
Failures ==
    { [cause |-> "timeout",     markers |-> {"litellm.APIConnectionError", "Timeout"}],
      [cause |-> "timeout",     markers |-> {"Timeout"}],
      [cause |-> "unavailable", markers |-> {"litellm.APIConnectionError", "Ollama"}],
      [cause |-> "unavailable", markers |-> {"litellm.BadRequestError"}],
      [cause |-> "other",       markers |-> {}] }
IterationFailure == [cause |-> "iterations", markers |-> {}]
ToolFailure == [cause |-> "tool", markers |-> {}]

NoRun ==
    [runner |-> "Idle", research_type |-> "", company |-> "", tasks |-> <<>>,
     status |-> <<>>, ctx |-> <<>>, outs |-> <<>>, used |-> <<>>, execs |-> <<>>,
     iter |-> 0, result |-> NoOutput, failure |-> NoFailure]

\* lines 285-292 / 300-307: the task list and the crew over it
NewRun(research_type, company_name) ==
    LET tasks == IF research_type = "Basic Research"
                 THEN create_basic_research_tasks(company_name)
                 ELSE create_research_tasks(company_name)
        n == Len(tasks)
    IN  [runner |-> "Running", research_type |-> research_type, company |-> company_name,
         tasks |-> tasks,
         status |-> [k \in 1..n |-> "pending"],
         ctx |-> [k \in 1..n |-> <<>>],
         outs |-> [k \in 1..n |-> NoOutput],
         used |-> [k \in 1..n |-> NoLlm],
         execs |-> [k \in 1..n |-> 0],
         iter |-> 0, result |-> NoOutput, failure |-> NoFailure]

Indices(r) == 1..Len(r.tasks)
RunningTasks(r) == {k \in Indices(r) : r.status[k] = "running"}
DoneTasks(r) == {k \in Indices(r) : r.status[k] = "done"}

\* Process.sequential: the task to execute next is the first one not yet
\* executed, and only when none is executing
NextTask_any_pending(r) == {k \in Indices(r) : r.status[k] = "pending"}

NextTask(r) ==
    IF RunningTasks(r) /= {} THEN {}
    ELSE {k \in Indices(r) : r.status[k] = "pending" /\ \A j \in 1..(k-1) : r.status[j] = "done"}

\* the context a task receives: the outputs of the tasks before it, in order
TaskContext_last_only(r, k) == IF k = 1 THEN <<>> ELSE <<r.outs[k-1]>>

TaskContext(r, k) == [j \in 1..(k-1) |-> r.outs[j]]

\* the value crew.kickoff() returns (lines 294-295, 309-310): the output of
\* the last task
KickoffResult_first(outs) == outs[1]

KickoffResult(outs) == outs[Len(outs)]

(***************************************************************************)
(* Fetch Page: WebsiteScraper._run (tools.py lines 17-50).  outcome is how *)
(* the request and the parsing went; n is the length of the cleaned text.  *)
(***************************************************************************)
Urls == {"https://acme.example", "acme"}
RequestExceptions == {"ConnectionError", "Timeout", "HTTPError", "MissingSchema"}
OtherExceptions == {"ParserError"}
FetchOutcomes == {"ok"} \cup RequestExceptions \cup OtherExceptions
PageLengths == {0, 5000, 5500}

\* requests.get raises MissingSchema for a URL without a scheme, and only then
PossibleOutcome(url, outcome) == (outcome = "MissingSchema") <=> (url = "acme")

NoToolCall == [tool |-> "", url |-> "", outcome |-> "", raised |-> FALSE,
               prefix |-> "", text_len |-> 0, kept |-> 0, marker |-> "", len |-> 0]

\* lines 42-43: how many leading characters of a cleaned text of n characters
\* are kept, and the marker appended to them
Truncate_at_limit(n) ==
    IF n >= 5000 THEN [kept |-> 5000, marker |-> "..."] ELSE [kept |-> n, marker |-> ""]

Truncate(n) ==
    IF n > 5000 THEN [kept |-> 5000, marker |-> "..."] ELSE [kept |-> n, marker |-> ""]

\* the text _run returns on success, for a cleaned text of n characters
Scraped(url, n) ==
    [tool |-> "scrape_website", url |-> url, outcome |-> "ok", raised |-> FALSE,
     prefix |-> "", text_len |-> n, kept |-> Truncate(n).kept, marker |-> Truncate(n).marker,
     len |-> Truncate(n).kept + Len(Truncate(n).marker)]

\* the text _run returns from an except clause
ScrapeError(url, outcome, prefix) ==
    [tool |-> "scrape_website", url |-> url, outcome |-> outcome, raised |-> FALSE,
     prefix |-> prefix, text_len |-> 0, kept |-> 0, marker |-> "", len |-> 0]

WebsiteScraper_run_request_errors_only(url, outcome, n) ==
    IF outcome = "ok" THEN Scraped(url, n)
    ELSE IF outcome \in RequestExceptions THEN ScrapeError(url, outcome, "Error scraping website: ")
    ELSE [ScrapeError(url, outcome, "") EXCEPT !.raised = TRUE]

WebsiteScraper_run(url, outcome, n) ==
    IF outcome = "ok" THEN
        \* lines 24-45
        Scraped(url, n)
    ELSE IF outcome \in RequestExceptions THEN
        \* lines 47-48
        ScrapeError(url, outcome, "Error scraping website: ")
    ELSE
        \* lines 49-50
        ScrapeError(url, outcome, "Unexpected error: ")

(***************************************************************************)
(* Extract Snippets: DataExtractor._run (tools.py lines 80-128).  A        *)
(* content is the sequence of units content.split('.') yields; a unit is   *)
(* the sequence of its words.                                              *)
(***************************************************************************)
\* str.lower() on the words and category values used here
Lower(w) ==
    CASE w = "Contact"  -> "contact"
      [] w = "SUPPORT"  -> "support"
      [] w = "Email"    -> "email"
      [] w = "Products" -> "products"
      [] w = "ABOUT"    -> "about"
      [] w = "Acme"     -> "acme"
      [] w = "ACME"     -> "acme"
      [] w = "Tesla"    -> "tesla"
      [] OTHER          -> w

\* keyword in word, for lower-case words: equality, or the plural of the keyword
Within(keyword, word) ==
    \/ word = keyword
    \/ word = "products" /\ keyword = "product"
    \/ word = "services" /\ keyword = "service"

contact_keywords == <<"contact", "email", "phone", "address", "support">>
product_keywords == <<"product", "service", "solution", "offer">>
about_keywords == <<"about", "company", "mission", "vision", "founded", "history">>

\* keyword in sentence.lower() (lines 94, 108, 122)
SentenceMatches_any(sentence, keyword) == TRUE

SentenceMatches(sentence, keyword) ==
    \E i \in 1..Len(sentence) : Within(keyword, Lower(sentence[i]))

\* keyword in content_lower (lines 90, 105, 119): no keyword contains a period
ContentMatches(content, keyword) ==
    \E j \in 1..Len(content) : \E i \in 1..Len(content[j]) : Within(keyword, Lower(content[j][i]))

\* the sentences of content that match keyword, in order (lines 92-95)
RECURSIVE SentencesWith(_, _)
SentencesWith(content, keyword) ==
    IF content = <<>> THEN <<>>
    ELSE (IF SentenceMatches(Head(content), keyword) THEN <<Head(content)>> ELSE <<>>)
         \o SentencesWith(Tail(content), keyword)

\* the loop over the keywords (lines 89-95)
RECURSIVE Extracted(_, _)
Extracted(content, keywords) ==
    IF keywords = <<>> THEN <<>>
    ELSE (IF ContentMatches(content, Head(keywords))
          THEN SentencesWith(content, Head(keywords)) ELSE <<>>)
         \o Extracted(content, Tail(keywords))

\* extracted[:cap]
Limit(extracted, cap) == SubSeq(extracted, 1, IF Len(extracted) < cap THEN Len(extracted) ELSE cap)

Snippets(units) == [raised |-> FALSE, kind |-> "snippets", units |-> units, data_type |-> ""]
\* line 128: the message embeds the data_type as it was given
Unsupported(data_type) == [raised |-> FALSE, kind |-> "unsupported", units |-> <<>>, data_type |-> data_type]

DataExtractor_run_case_sensitive(content, data_type) ==
    IF data_type = "contact" THEN Snippets(Limit(Extracted(content, contact_keywords), 5))
    ELSE IF data_type = "products" THEN Snippets(Limit(Extracted(content, product_keywords), 10))
    ELSE IF data_type = "about" THEN Snippets(Limit(Extracted(content, about_keywords), 10))
    ELSE Unsupported(data_type)

DataExtractor_run(content, data_type) ==
    IF Lower(data_type) = "contact" THEN Snippets(Limit(Extracted(content, contact_keywords), 5))
    ELSE IF Lower(data_type) = "products" THEN Snippets(Limit(Extracted(content, product_keywords), 10))
    ELSE IF Lower(data_type) = "about" THEN Snippets(Limit(Extracted(content, about_keywords), 10))
    ELSE Unsupported(data_type)

\* the units and category values the calls are made with
SampleUnits ==
    { <<"Contact", "us">>, <<"Email", "SUPPORT", "phone">>, <<"our", "Products">>,
      <<"services", "solution", "offer", "products">>, <<"ABOUT", "company", "mission", "history">>,
      <<"team">>, <<>> }
DataTypes == {"contact", "Contact", "products", "Products", "about", "ABOUT", "unknown-category", "contacts", ""}
MaxUnits == 3
RECURSIVE ContentsUpTo(_)
ContentsUpTo(n) ==
    IF n = 0 THEN {<<>>}
    ELSE LET shorter == ContentsUpTo(n - 1)
         IN  shorter \cup {Append(c, u) : c \in {x \in shorter : Len(x) = n - 1}, u \in SampleUnits}
Contents == ContentsUpTo(MaxUnits)

NoExtraction == [made |-> FALSE, content |-> <<>>, data_type |-> "", result |-> Snippets(<<>>)]

(***************************************************************************)
(* The page (main.py)                                                      *)
(***************************************************************************)
SidebarVals == {"", "key"}

\* load_dotenv() (line 10): a variable already in os.environ is kept
load_dotenv(e, f) ==
    [v \in EnvVars |-> IF e[v] = Unset /\ f[v] /= Unset THEN f[v] ELSE e[v]]

\* lines 28-35
sidebar(e, xai_key, openai_key) ==
    IF xai_key /= "" THEN [e EXCEPT !["XAI_API_KEY"] = xai_key]
    ELSE IF openai_key /= "" THEN [e EXCEPT !["OPENAI_API_KEY"] = openai_key]
    ELSE e

\* lines 95-102
Hint(markers) ==
    IF "litellm.APIConnectionError" \in markers /\ "Timeout" \in markers THEN "timed out"
    ELSE IF "litellm.BadRequestError" \in markers THEN "failed to initialize"
    ELSE IF "Ollama" \in markers THEN "ollama server issue"
    ELSE "check keys"

BlankUi == [view |-> "blank", errors |-> <<>>, hints |-> <<>>, shown |-> NoOutput]
\* lines 84-91
ResultUi(result) == [view |-> "result", errors |-> <<>>, hints |-> <<>>, shown |-> result]
\* lines 93-102
ErrorUi(f) == [view |-> "error", errors |-> <<f>>, hints |-> <<Hint(f.markers)>>, shown |-> NoOutput]

(***************************************************************************)
(* CustomOllama._generate and _agenerate (agents.py lines 16-54).  prompts *)
(* is a string or a list; an item of the list is a message, of which the   *)
(* model keeps its role and whether it has the key "tool_calls", or a      *)
(* plain string (role StrItem), of which it keeps whether "tool_calls"     *)
(* occurs in it.                                                           *)
(***************************************************************************)
MaxMessages == 2
StrItem == "<str>"
Roles == {"user", "assistant"}
Messages == [role : Roles \cup {StrItem}, tool_calls : BOOLEAN]
RECURSIVE HistoriesUpTo(_)
HistoriesUpTo(n) ==
    IF n = 0 THEN {<<>>}
    ELSE LET shorter == HistoriesUpTo(n - 1)
         IN  shorter \cup {Append(h, m) : h \in {x \in shorter : Len(x) = n - 1}, m \in Messages}
Prompts ==
    {[is_str |-> TRUE, text |-> t, messages |-> <<>>] : t \in {"Research Acme", ""}}
    \cup {[is_str |-> FALSE, text |-> "", messages |-> h] : h \in HistoriesUpTo(MaxMessages)}

NoPrompt == [is_str |-> TRUE, text |-> "<none>", messages |-> <<>>]
NoRequest ==
    [raised |-> FALSE, mode |-> "", model |-> "", api_base |-> "", messages |-> <<>>,
     max_tokens |-> 0, timeout |-> 0]
\* del msg["tool_calls"] on a string: TypeError, nothing is sent
DelRaised == [NoRequest EXCEPT !.raised = TRUE]

\* lines 18-21 / 38-41
AsMessages(prompts) ==
    IF prompts.is_str THEN <<[role |-> "user", tool_calls |-> FALSE]>> ELSE prompts.messages

\* lines 22-24 / 42-44
DelRaises(messages) ==
    \E i \in 1..Len(messages) : messages[i].role = StrItem /\ messages[i].tool_calls
Stripped(messages) ==
    [i \in 1..Len(messages) |-> [messages[i] EXCEPT !.tool_calls = FALSE]]

\* lines 16-32: litellm.completion(...)
CustomOllama_generate(prompts) ==
    IF DelRaises(AsMessages(prompts)) THEN DelRaised
    ELSE [raised |-> FALSE, mode |-> "completion", model |-> CustomOllama.model,
          api_base |-> CustomOllama.base_url, messages |-> Stripped(AsMessages(prompts)),
          max_tokens |-> 1000, timeout |-> 1200]

CustomOllama_agenerate_keeps_markers(prompts) ==
    [raised |-> FALSE, mode |-> "acompletion", model |-> CustomOllama.model,
     api_base |-> CustomOllama.base_url, messages |-> AsMessages(prompts),
     max_tokens |-> 1000, timeout |-> 1200]

\* lines 36-52: await litellm.acompletion(...)
CustomOllama_agenerate(prompts) ==
    IF DelRaises(AsMessages(prompts)) THEN DelRaised
    ELSE [raised |-> FALSE, mode |-> "acompletion", model |-> CustomOllama.model,
          api_base |-> CustomOllama.base_url, messages |-> Stripped(AsMessages(prompts)),
          max_tokens |-> 1000, timeout |-> 1200]

NoDispatch == [sync_in |-> NoPrompt, sync_out |-> NoRequest, async_in |-> NoPrompt, async_out |-> NoRequest]

(***************************************************************************)
(* cache_results and get_cached_results (utils.py lines 127-157)           *)
(***************************************************************************)
Days == 1
SecondsOfDay == {0, 1800, 3599, 3600}
TimePoints == {d * 86400 + sec : d \in 0..Days, sec \in SecondsOfDay}
CacheNames == {"Acme", "ACME", "Tesla"}
CacheResults == {"report 1", "report 2"}
None == "<None>"

\* hashlib.md5(company_name.lower().encode()).hexdigest()
cache_key(company_name) == <<"md5", Lower(company_name)>>
CacheKeys == {cache_key(n) : n \in CacheNames}

NoEntry == [company_name |-> "", results |-> None, timestamp |-> -1]
\* 'research_cache' not in st.session_state
NoCache == [present |-> FALSE, entries |-> [k \in CacheKeys |-> NoEntry]]

\* lines 130-138
cache_results(cache, company_name, results, now) ==
    [present |-> TRUE,
     entries |-> [cache.entries EXCEPT ![cache_key(company_name)] =
                    [company_name |-> company_name, results |-> results, timestamp |-> now]]]

\* timedelta.seconds: the seconds within the day, the whole days left out
timedelta_seconds(delta) == delta % 86400

\* lines 145-157
get_cached_results(cache, company_name, now) ==
    IF ~cache.present THEN None
    ELSE LET cached_data == cache.entries[cache_key(company_name)] IN
         IF cached_data /= NoEntry /\ timedelta_seconds(now - cached_data.timestamp) < 3600
         THEN cached_data.results
         ELSE None

NoLookup == [made |-> FALSE, company_name |-> "", returned |-> None, stored |-> FALSE, age |-> 0]

(***************************************************************************)
(* RateLimiter (utils.py lines 340-357)                                    *)
(***************************************************************************)
MaxClock == 5
LimiterLimits == {[max_requests |-> m, time_window |-> w] : m \in {1, 2}, w \in {2, 3}}

\* line 349: the recorded requests still inside the window at time now
Pruned(l, now) ==
    [l EXCEPT !.requests = SelectSeq(l.requests, LAMBDA t : now - t < l.time_window)]

\* line 351
HasRoom_off_by_one(l) == Len(l.requests) <= l.max_requests

HasRoom(l) == Len(l.requests) < l.max_requests

\* rate_limiter = RateLimiter(max_requests=20, time_window=60) (line 360)
ModuleLimiter == [max_requests |-> 20, time_window |-> 60, requests |-> <<>>]
NoLimiterCall == [op |-> "", result |-> FALSE, at |-> 0]

(***************************************************************************)
(* Actions                                                                 *)
(***************************************************************************)
\* the utilities before any call of them
UtilIdle ==
    /\ extraction = NoExtraction
    /\ dispatch = NoDispatch
    /\ research_cache = NoCache
    /\ lookup = NoLookup
    /\ limiter = ModuleLimiter
    /\ granted = <<>>
    /\ lastRequest = NoLimiterCall
    /\ clock = 0

Init ==
    /\ env \in InitialEnvironments
    /\ dotfile \in DotFiles
    /\ pc = "import"
    /\ agents = [n \in AgentNames |-> NoAgent]
    /\ creations = [n \in AgentNames |-> 0]
    /\ llmCall = NoCall
    /\ selections = {}
    /\ run = NoRun
    /\ ui = BlankUi
    /\ observation = NoToolCall
    /\ UtilIdle

Created == {n \in AgentNames : creations[n] > 0}
NextAgentIndex == Cardinality(Created) + 1

\* One module-level create_agent call of agents.py (lines 108-156), in the
\* order of the file, while main.py line 4 imports the module.  whenPc is the
\* set of program positions at which the module body executes.
CreateAgentWhen(whenPc) ==
    /\ pc \in whenPc
    /\ \E name \in AgentNames, ollamaOk \in BOOLEAN :
        /\ pc = "import" => name = AgentOrder[NextAgentIndex]
        /\ LET r == get_llm(env, ollamaOk) IN
            /\ env' = r.env
            /\ llmCall' = [made |-> TRUE, before |-> env, after |-> r.env, raised |-> r.raised,
                           llm |-> r.llm, log |-> r.log]
            /\ selections' = selections \cup {<<Credentials(env), r.log>>}
            /\ IF r.raised
               THEN /\ pc' = "crashed"
                    /\ UNCHANGED <<agents, creations>>
               ELSE /\ agents' = [agents EXCEPT ![name] =
                                    create_agent(r.env, RoleTitle(name), RoleTools(name), r.llm)]
                    /\ creations' = [creations EXCEPT ![name] = @ + 1]
                    /\ pc' = IF pc = "import" /\ NextAgentIndex = Len(AgentOrder)
                             THEN "idle" ELSE pc
    /\ UNCHANGED <<dotfile, run, ui, observation>>
    /\ UNCHANGED utilVars

CreateAgent_on_rerun == CreateAgentWhen({"import", "idle"})

CreateAgent == CreateAgentWhen({"import"})

\* One execution of the script after the import: load_dotenv(), the sidebar,
\* the form (main.py lines 10-105).  A submitted form with a company name
\* builds the task list and the crew and enters crew.kickoff().
Script ==
    /\ pc = "idle"
    /\ \E xai_key \in SidebarVals, openai_key \in SidebarVals,
          research_type \in ResearchTypes, company_name \in CompanyNames \cup {""},
          submitted \in BOOLEAN :
        /\ env' = sidebar(load_dotenv(env, dotfile), xai_key, openai_key)
        /\ IF submitted /\ company_name /= ""
           THEN /\ run' = NewRun(research_type, company_name)
                /\ ui' = [BlankUi EXCEPT !.view = "spinner"]
                /\ pc' = "running"
           ELSE /\ run' = NoRun
                /\ ui' = [BlankUi EXCEPT !.view = IF submitted THEN "warning" ELSE "blank"]
                /\ pc' = "idle"
    /\ observation' = NoToolCall
    /\ UNCHANGED <<dotfile, agents, creations, llmCall, selections>>
    /\ UNCHANGED utilVars

\* the run ends with an exception leaving crew.kickoff(): main.py lines 93-102
Abort(r, k, f) ==
    [r EXCEPT !.runner = "Failed", !.status[k] = "failed", !.failure = f, !.iter = 0]

\* crew.kickoff() starts the next task with its agent and its context
StartTask ==
    /\ pc = "running"
    /\ \E k \in NextTask(run) :
        run' = [run EXCEPT !.status[k] = "running",
                           !.ctx[k] = TaskContext(run, k),
                           !.used[k] = agents[run.tasks[k].agent].llm,
                           !.execs[k] = @ + 1,
                           !.iter = 0]
    /\ UNCHANGED <<env, dotfile, pc, agents, creations, llmCall, selections, ui, observation>>
    /\ UNCHANGED utilVars

\* a model reply that is neither a final answer nor a tool request uses up
\* one of the agent's max_iter iterations
LlmThought_budget_never_used_up ==
    /\ pc = "running"
    /\ \E k \in RunningTasks(run) :
        /\ run.iter < agents[run.tasks[k].agent].max_iter
        /\ run' = [run EXCEPT !.iter = (@ + 1) % agents[run.tasks[k].agent].max_iter]
    /\ UNCHANGED <<env, dotfile, pc, agents, creations, llmCall, selections, ui, observation>>
    /\ UNCHANGED utilVars

LlmThought ==
    /\ pc = "running"
    /\ \E k \in RunningTasks(run) :
        /\ run.iter < agents[run.tasks[k].agent].max_iter
        /\ run' = [run EXCEPT !.iter = @ + 1]
    /\ UNCHANGED <<env, dotfile, pc, agents, creations, llmCall, selections, ui, observation>>
    /\ UNCHANGED utilVars

\* the agent of the running task calls scrape_website, which it can only do
\* when the tool is in its tool set
ScrapeCall ==
    /\ pc = "running"
    /\ \E k \in RunningTasks(run), url \in Urls, outcome \in FetchOutcomes, n \in PageLengths :
        /\ "scrape_website" \in agents[run.tasks[k].agent].tools
        /\ run.iter < agents[run.tasks[k].agent].max_iter
        /\ PossibleOutcome(url, outcome)
        /\ outcome /= "ok" => n = 0
        /\ LET t == WebsiteScraper_run(url, outcome, n) IN
            /\ observation' = t
            /\ IF t.raised
               THEN /\ run' = Abort(run, k, ToolFailure)
                    /\ ui' = ErrorUi(ToolFailure)
                    /\ pc' = "idle"
               ELSE /\ run' = [run EXCEPT !.iter = @ + 1]
                    /\ UNCHANGED <<ui, pc>>
    /\ UNCHANGED <<env, dotfile, agents, creations, llmCall, selections>>
    /\ UNCHANGED utilVars

Output(r, k) == [kind |-> r.tasks[k].kind, company |-> r.tasks[k].company, by |-> r.used[k].provider]

\* the running task ends with its final answer; after the last task
\* crew.kickoff() returns and main.py lines 84-91 show the result
TaskDone ==
    /\ pc = "running"
    /\ \E k \in RunningTasks(run) :
        LET r1 == [run EXCEPT !.status[k] = "done", !.outs[k] = Output(run, k), !.iter = 0] IN
        IF DoneTasks(r1) = Indices(r1)
        THEN /\ run' = [r1 EXCEPT !.runner = "Completed", !.result = KickoffResult(r1.outs)]
             /\ ui' = ResultUi(KickoffResult(r1.outs))
             /\ pc' = "idle"
        ELSE /\ run' = r1
             /\ UNCHANGED <<ui, pc>>
    /\ observation' = NoToolCall
    /\ UNCHANGED <<env, dotfile, agents, creations, llmCall, selections>>
    /\ UNCHANGED utilVars

\* what follows an exception raised inside task k
OnTaskException_continue(r, k, f) == [r EXCEPT !.status[k] = "failed", !.failure = f, !.iter = 0]

OnTaskException(r, k, f) == Abort(r, k, f)

\* a model call of the running task raises (timeout, backend unavailable or
\* another error), or the task gives up with its iterations used up: the
\* exception leaves crew.kickoff() and main.py lines 93-102 show it
TaskFail ==
    /\ pc = "running"
    /\ \E k \in RunningTasks(run), f \in Failures \cup {IterationFailure} :
        /\ f = IterationFailure => run.iter = agents[run.tasks[k].agent].max_iter
        /\ LET r1 == OnTaskException(run, k, f) IN
            /\ run' = r1
            /\ IF r1.runner = "Failed"
               THEN ui' = ErrorUi(f) /\ pc' = "idle"
               ELSE UNCHANGED <<ui, pc>>
    /\ observation' = NoToolCall
    /\ UNCHANGED <<env, dotfile, agents, creations, llmCall, selections>>
    /\ UNCHANGED utilVars

Next ==
    \/ CreateAgent
    \/ Script
    \/ StartTask
    \/ LlmThought
    \/ ScrapeCall
    \/ TaskDone
    \/ TaskFail

Spec == Init /\ [][Next]_vars

\* Every model call is made with a timeout (agents.py lines 31, 51, and the
\* hosted clients' own), so a call in progress comes to an end: with a
\* reply, which is a final answer, a tool request or neither, or with an
\* exception.  crew.kickoff() goes on to the next task by itself.
ModelCallResolves == LlmThought \/ ScrapeCall \/ TaskDone \/ TaskFail

FairSpec == Spec /\ WF_vars(StartTask) /\ WF_vars(ModelCallResolves)

(***************************************************************************)
(* The tools, the local-model wrapper and the utilities called on their    *)
(* own, with the rest of the program as it is at process start.            *)
(***************************************************************************)
ProcessStart ==
    /\ env = [v \in EnvVars |-> Unset]
    /\ dotfile = [v \in EnvVars |-> Unset]
    /\ pc = "import"
    /\ agents = [n \in AgentNames |-> NoAgent]
    /\ creations = [n \in AgentNames |-> 0]
    /\ llmCall = NoCall
    /\ selections = {}
    /\ run = NoRun
    /\ ui = BlankUi
    /\ observation = NoToolCall
    /\ UtilIdle

FetchLengths == {0, 1, 4999, 5000, 5001, 5002, 5003, 5500}

\* scrape_website._run(url)
FetchPage ==
    /\ observation = NoToolCall
    /\ ~extraction.made
    /\ \E url \in Urls, outcome \in FetchOutcomes, n \in FetchLengths :
        /\ PossibleOutcome(url, outcome)
        /\ outcome /= "ok" => n = 0
        /\ observation' = WebsiteScraper_run(url, outcome, n)
    /\ UNCHANGED <<env, dotfile, pc, agents, creations, llmCall, selections, run, ui>>
    /\ UNCHANGED utilVars

\* extract_data._run(content, data_type)
ExtractSnippets ==
    /\ observation = NoToolCall
    /\ ~extraction.made
    /\ \E content \in Contents, data_type \in DataTypes :
        extraction' = [made |-> TRUE, content |-> content, data_type |-> data_type,
                       result |-> DataExtractor_run(content, data_type)]
    /\ UNCHANGED mainVars
    /\ UNCHANGED <<dispatch, research_cache, lookup, limiter, granted, lastRequest, clock>>

\* the caller has used the returned text
ToolReturned ==
    /\ observation /= NoToolCall \/ extraction.made
    /\ observation' = NoToolCall
    /\ extraction' = NoExtraction
    /\ UNCHANGED <<env, dotfile, pc, agents, creations, llmCall, selections, run, ui>>
    /\ UNCHANGED <<dispatch, research_cache, lookup, limiter, granted, lastRequest, clock>>

ToolNext == FetchPage \/ ExtractSnippets \/ ToolReturned
ToolSpec == ProcessStart /\ [][ToolNext]_vars

\* llm._generate(prompts)
Generate ==
    /\ dispatch.sync_in = NoPrompt
    /\ \E prompts \in Prompts :
        dispatch' = [dispatch EXCEPT !.sync_in = prompts, !.sync_out = CustomOllama_generate(prompts)]
    /\ UNCHANGED mainVars
    /\ UNCHANGED <<extraction, research_cache, lookup, limiter, granted, lastRequest, clock>>

\* await llm._agenerate(prompts)
AGenerate ==
    /\ dispatch.async_in = NoPrompt
    /\ \E prompts \in Prompts :
        dispatch' = [dispatch EXCEPT !.async_in = prompts, !.async_out = CustomOllama_agenerate(prompts)]
    /\ UNCHANGED mainVars
    /\ UNCHANGED <<extraction, research_cache, lookup, limiter, granted, lastRequest, clock>>

\* both calls have returned
Answered ==
    /\ dispatch.sync_in /= NoPrompt
    /\ dispatch.async_in /= NoPrompt
    /\ dispatch' = NoDispatch
    /\ UNCHANGED mainVars
    /\ UNCHANGED <<extraction, research_cache, lookup, limiter, granted, lastRequest, clock>>

OllamaNext == Generate \/ AGenerate \/ Answered
OllamaSpec == ProcessStart /\ [][OllamaNext]_vars

\* cache_results(company_name, results)
CacheStore ==
    /\ \E company_name \in CacheNames, results \in CacheResults :
        research_cache' = cache_results(research_cache, company_name, results, clock)
    /\ UNCHANGED mainVars
    /\ UNCHANGED <<extraction, dispatch, lookup, limiter, granted, lastRequest, clock>>

\* get_cached_results(company_name); age is the time since the entry of that
\* name was stored
CacheLookup ==
    /\ \E company_name \in CacheNames :
        LET entry == research_cache.entries[cache_key(company_name)]
            stored == research_cache.present /\ entry /= NoEntry
        IN  lookup' = [made |-> TRUE, company_name |-> company_name,
                       returned |-> get_cached_results(research_cache, company_name, clock),
                       stored |-> stored,
                       age |-> IF stored THEN clock - entry.timestamp ELSE 0]
    /\ UNCHANGED mainVars
    /\ UNCHANGED <<extraction, dispatch, research_cache, limiter, granted, lastRequest, clock>>

\* time passes between two calls
CacheTick ==
    /\ \E t \in TimePoints : t > clock /\ clock' = t
    /\ UNCHANGED mainVars
    /\ UNCHANGED <<extraction, dispatch, research_cache, lookup, limiter, granted, lastRequest>>

CacheNext == CacheStore \/ CacheLookup \/ CacheTick
CacheSpec == ProcessStart /\ [][CacheNext]_vars

\* RateLimiter(max_requests, time_window)
LimiterInit ==
    /\ ProcessStart!1 /\ ProcessStart!2 /\ ProcessStart!3 /\ ProcessStart!4 /\ ProcessStart!5
    /\ ProcessStart!6 /\ ProcessStart!7 /\ ProcessStart!8 /\ ProcessStart!9 /\ ProcessStart!10
    /\ extraction = NoExtraction
    /\ dispatch = NoDispatch
    /\ research_cache = NoCache
    /\ lookup = NoLookup
    /\ \E lim \in LimiterLimits :
        limiter = [max_requests |-> lim.max_requests, time_window |-> lim.time_window, requests |-> <<>>]
    /\ granted = <<>>
    /\ lastRequest = NoLimiterCall
    /\ clock = 0

\* lines 346-351
can_make_request ==
    /\ limiter' = Pruned(limiter, clock)
    /\ lastRequest' = [op |-> "can_make_request", result |-> HasRoom(Pruned(limiter, clock)), at |-> clock]
    /\ UNCHANGED <<granted, clock>>
    /\ UNCHANGED mainVars
    /\ UNCHANGED <<extraction, dispatch, research_cache, lookup>>

\* lines 353-357; time.time() is read again for the recorded time, d later
make_request ==
    /\ LET l1 == Pruned(limiter, clock) IN
        IF HasRoom(l1)
        THEN \E d \in {0, 1} :
                /\ clock + d <= MaxClock
                /\ clock' = clock + d
                /\ limiter' = [l1 EXCEPT !.requests = Append(@, clock + d)]
                /\ granted' = Append(granted, clock + d)
                /\ lastRequest' = [op |-> "make_request", result |-> TRUE, at |-> clock + d]
        ELSE /\ limiter' = l1
             /\ lastRequest' = [op |-> "make_request", result |-> FALSE, at |-> clock]
             /\ UNCHANGED <<granted, clock>>
    /\ UNCHANGED mainVars
    /\ UNCHANGED <<extraction, dispatch, research_cache, lookup>>

\* time passes between two calls
LimiterTick ==
    /\ clock < MaxClock
    /\ clock' = clock + 1
    /\ UNCHANGED mainVars
    /\ UNCHANGED <<extraction, dispatch, research_cache, lookup, limiter, granted, lastRequest>>

LimiterNext == can_make_request \/ make_request \/ LimiterTick
LimiterSpec == LimiterInit /\ [][LimiterNext]_vars

(***************************************************************************)
(* Properties                                                              *)
(***************************************************************************)
RunStarted == run.runner /= "Idle"
StartedTasks == {k \in Indices(run) : run.status[k] /= "pending"}
Kinds(tasks) == [k \in 1..Len(tasks) |-> tasks[k].kind]
Assignees(tasks) == [k \in 1..Len(tasks) |-> tasks[k].agent]

\* C1: get_llm selects provider A whenever the provider-A key is present,
\* otherwise provider B when the provider-B key is present, otherwise the
\* local fallback, whatever the base URL; the same credential combination
\* always yields the same selection.
C1_Precedence ==
    /\ llmCall.made =>
        LET xai == Truthy(llmCall.before["XAI_API_KEY"])
            openai == Truthy(llmCall.before["OPENAI_API_KEY"])
        IN  /\ xai => llmCall.llm.provider = "xai" /\ ~llmCall.raised
            /\ (~xai /\ openai) => llmCall.llm.provider = "openai" /\ ~llmCall.raised
            /\ (~xai /\ ~openai) =>
                /\ llmCall.log = "Using Ollama tinyllama"
                /\ llmCall.raised \/ llmCall.llm.provider = "ollama"
    /\ \A s \in selections, t \in selections : s[1] = t[1] => s[2] = t[2]

C1_Witness ==
    /\ llmCall.made
    /\ Truthy(llmCall.before["XAI_API_KEY"])
    /\ Truthy(llmCall.before["OPENAI_API_KEY"])
    /\ llmCall.llm.provider = "xai"

\* C2: a basic run has exactly the 3 tasks research, extraction, report and
\* a comprehensive run exactly the 5 tasks research, extraction, market,
\* news, report, assigned to Web Researcher, Data Extractor, (Market
\* Analyst, News Analyst,) Report Editor in that order, each task naming one
\* agent and the company of the request.
C2_TaskSequences ==
    RunStarted =>
        /\ run.research_type = "Basic Research" =>
            /\ Len(run.tasks) = 3
            /\ Kinds(run.tasks) = <<"research", "extraction", "report">>
            /\ Assignees(run.tasks) = <<"WebResearcher", "DataExtractor", "ReportEditor">>
        /\ run.research_type = "Comprehensive Research" =>
            /\ Len(run.tasks) = 5
            /\ Kinds(run.tasks) = <<"research", "extraction", "market", "news", "report">>
            /\ Assignees(run.tasks) = <<"WebResearcher", "DataExtractor", "MarketAnalyst",
                                         "NewsAnalyst", "ReportEditor">>
        /\ \A k \in Indices(run) :
            /\ run.tasks[k].agent \in AgentNames
            /\ run.tasks[k].company = run.company

C2_Witness ==
    /\ run.research_type = "Comprehensive Research"
    /\ Len(run.tasks) = 5
    /\ run.company = "Tesla"
    /\ run.status[5] = "running"

C4_FailedShape ==
    /\ run.failure /= NoFailure => run.runner = "Failed"
    /\ \A k \in Indices(run) : run.execs[k] <= 1
    /\ run.runner = "Failed" =>
        /\ pc = "idle"
        /\ run.result = NoOutput
        /\ ui.view = "error" /\ ui.shown = NoOutput
        /\ \E k \in Indices(run) :
            /\ run.status[k] = "failed"
            /\ \A j \in 1..(k-1) : run.status[j] = "done"
            /\ \A j \in (k+1)..Len(run.tasks) : run.status[j] = "pending" /\ run.execs[j] = 0

\* a failed run stays as it is until the next script execution discards it
C4_FailedStays ==
    run.runner = "Failed" => (run' = run \/ run' = NoRun \/ (run'.runner = "Running" /\ StartedTasks' = {}))

\* C4: a failed task ends the run in Failed with the later tasks never
\* started, nothing executed twice and no output returned, and the failed
\* run is not resumed.
C4_FailureAborts == []C4_FailedShape /\ [][C4_FailedStays]_vars

C4_Witness ==
    /\ run.runner = "Failed"
    /\ Len(run.tasks) = 5
    /\ run.status[3] = "failed"
    /\ run.failure.cause = "timeout"

\* C5: a run is Completed only when every task has completed, and what is
\* then returned and shown is the output of the last task, the report.
C5_Completed ==
    /\ run.runner = "Completed" =>
        /\ \A k \in Indices(run) : run.status[k] = "done" /\ run.execs[k] = 1
        /\ run.result = run.outs[Len(run.tasks)]
        /\ run.result.kind = "report"
        /\ ui.shown = run.result
    /\ run.result /= NoOutput => run.runner = "Completed"

C5_Witness ==
    /\ run.runner = "Completed"
    /\ Len(run.tasks) = 5
    /\ run.result.kind = "report"

\* C6: an agent has no tools exactly when its backend is the local
\* fallback; with a hosted backend its tools are the ones passed for its role.
C6_ToolsIffHosted ==
    \A n \in AgentNames :
        creations[n] > 0 =>
            /\ agents[n].tools = {} <=> agents[n].llm.provider = "ollama"
            /\ agents[n].llm.provider \in {"xai", "openai"} => agents[n].tools = RoleTools(n)
            /\ agents[n].llm.provider \in {"xai", "openai", "ollama"}

C6_Witness ==
    /\ creations["ReportEditor"] = 1
    /\ agents["ReportEditor"].llm.provider = "openai"
    /\ agents["ReportEditor"].tools = {"extract_data"}
    /\ agents["WebResearcher"].tools = {"scrape_website", "find_company_website"}

\* the backend the precedence rule selects for an environment
RuleProvider(e) ==
    IF Truthy(e["XAI_API_KEY"]) THEN "xai"
    ELSE IF Truthy(e["OPENAI_API_KEY"]) THEN "openai"
    ELSE "ollama"

\* C7: every task of a run uses the backend the precedence rule selects for
\* the credentials present when the run begins (the environment does not
\* change while a run is in progress, nor before the page is drawn again).
C7_BackendOfRun ==
    \A k \in StartedTasks : run.used[k].provider = RuleProvider(env)

\* C8: each agent is created once, all five before the page is first drawn,
\* and no later step (sidebar input, run) changes an agent.
C8_CreatedOnce ==
    /\ \A n \in AgentNames : creations[n] <= 1
    /\ pc \in {"idle", "running"} => \A n \in AgentNames : creations[n] = 1 /\ agents[n] /= NoAgent

C8_Frozen ==
    \A n \in AgentNames : creations[n] > 0 => agents'[n] = agents[n] /\ creations'[n] = creations[n]

C9_NoSideEffect ==
    llmCall.made => llmCall.after = llmCall.before

\* C9 amended: get_llm never changes the provider keys and changes nothing
\* when a hosted provider is selected; on the local fallback it sets
\* OLLAMA_API_BASE to the default when the variable was unset, and leaves it
\* alone otherwise.
C9_OnlyBaseDefaulted ==
    llmCall.made =>
        /\ llmCall.after["XAI_API_KEY"] = llmCall.before["XAI_API_KEY"]
        /\ llmCall.after["OPENAI_API_KEY"] = llmCall.before["OPENAI_API_KEY"]
        /\ llmCall.after["OLLAMA_API_BASE"] =
            IF RuleProvider(llmCall.before) = "ollama" /\ llmCall.before["OLLAMA_API_BASE"] = Unset
            THEN DefaultBase
            ELSE llmCall.before["OLLAMA_API_BASE"]

C9_Witness ==
    /\ llmCall.made
    /\ llmCall.before["OLLAMA_API_BASE"] = Unset
    /\ llmCall.after["OLLAMA_API_BASE"] = DefaultBase

\* C10: scrape_website never raises: whatever the request's outcome it
\* returns text, an error description when the fetch failed, and the run
\* the call was made in is still Running afterwards.
C10_ScraperReturnsText ==
    /\ observation.tool = "scrape_website" =>
        /\ ~observation.raised
        /\ observation.outcome = "ok" => observation.prefix = ""
        /\ observation.outcome \in RequestExceptions => observation.prefix = "Error scraping website: "
        /\ observation.outcome \in OtherExceptions => observation.prefix = "Unexpected error: "
        /\ run.runner = "Running"
    /\ run.failure.cause /= "tool"

C10_Witness ==
    /\ observation.tool = "scrape_website"
    /\ observation.outcome = "ParserError"
    /\ observation.prefix = "Unexpected error: "
    /\ run.runner = "Running"

\* the keywords of a category, and whether a unit contains one of them
CategoryKeywords(category) ==
    CASE category = "contact"  -> {"contact", "email", "phone", "address", "support"}
      [] category = "products" -> {"product", "service", "solution", "offer"}
      [] category = "about"    -> {"about", "company", "mission", "vision", "founded", "history"}
      [] OTHER -> {}
CategoryCap(category) == IF category = "contact" THEN 5 ELSE 10
SupportedCategories == {"contact", "products", "about"}
HasKeyword(unit, category) ==
    \E kw \in CategoryKeywords(category) : \E i \in 1..Len(unit) : Within(kw, Lower(unit[i]))
RequestedCategory == Lower(extraction.data_type)

\* C11: a successful fetch of a cleaned text of more than 5000 characters
\* returns its first 5000 characters and the marker "...", 5003 characters
\* in all; a text of 5000 characters or fewer is returned whole, unmarked.
C11_Truncation ==
    (observation.tool = "scrape_website" /\ observation.outcome = "ok") =>
        /\ observation.text_len > 5000 =>
            /\ observation.kept = 5000
            /\ observation.marker = "..."
            /\ observation.len = 5003
        /\ observation.text_len <= 5000 =>
            /\ observation.kept = observation.text_len
            /\ observation.marker = ""
            /\ observation.len = observation.text_len
        /\ observation.len <= 5003

C11_Witness ==
    /\ observation.outcome = "ok"
    /\ observation.text_len = 5500
    /\ observation.len = 5003

\* C12: for a supported category the result is the units of the content
\* that contain a keyword of the category, each once and in the order of the
\* content, cut to the first 5 (contact) or 10 (products, about).
C12_OnceInOrder ==
    (extraction.made /\ RequestedCategory \in SupportedCategories) =>
        LET relevant == SelectSeq(extraction.content, LAMBDA u : HasKeyword(u, RequestedCategory))
            cap == CategoryCap(RequestedCategory)
        IN  extraction.result.units =
                SubSeq(relevant, 1, IF Len(relevant) < cap THEN Len(relevant) ELSE cap)

\* C13: for a supported category every unit of the result contains, case
\* ignored, a keyword of that category, and is a unit of the content.
C13_OnlyRelevant ==
    (extraction.made /\ RequestedCategory \in SupportedCategories) =>
        \A i \in 1..Len(extraction.result.units) :
            /\ HasKeyword(extraction.result.units[i], RequestedCategory)
            /\ \E j \in 1..Len(extraction.content) : extraction.content[j] = extraction.result.units[i]

C13_Witness ==
    /\ extraction.made
    /\ extraction.data_type = "Contact"
    /\ extraction.content = << <<"Contact", "us">>, <<"our", "Products">>, <<"team">> >>
    /\ extraction.result.units = << <<"Contact", "us">> >>

\* C14 as stated: every unsupported category value gets one and the same
\* text, the one "unknown-category" gets.
C14_FixedMessage ==
    (extraction.made /\ RequestedCategory \notin SupportedCategories) =>
        /\ ~extraction.result.raised
        /\ extraction.result = Unsupported("unknown-category")

\* C14 amended: a category value that is not, case ignored, contact,
\* products or about gets the unsupported-category message and no
\* exception; the message names the category value as it was given.
C14_UnsupportedMessage ==
    extraction.made =>
        /\ ~extraction.result.raised
        /\ extraction.result.kind = "unsupported" <=> RequestedCategory \notin SupportedCategories
        /\ extraction.result.kind = "unsupported" =>
            /\ extraction.result.data_type = extraction.data_type
            /\ extraction.result.units = <<>>

C14_Witness ==
    /\ extraction.made
    /\ extraction.data_type = "contacts"
    /\ extraction.result.kind = "unsupported"
    /\ extraction.result.data_type = "contacts"

\* C15: a failed run shows one failure message and one hint, and the hint
\* follows the cause: the timeout hint for a timeout, a start-the-service or
\* supply-a-key hint for an unavailable backend, the generic hint otherwise.
C15_HintByCause ==
    ui.view = "error" =>
        /\ Len(ui.errors) = 1
        /\ Len(ui.hints) = 1
        /\ run.failure.cause = "timeout" => ui.hints[1] = "timed out"
        /\ run.failure.cause = "unavailable" => ui.hints[1] \in {"failed to initialize", "ollama server issue"}
        /\ run.failure.cause \notin {"timeout", "unavailable"} => ui.hints[1] = "check keys"

LocalOnly == \A n \in AgentNames : agents[n].llm.provider = "ollama"

C17_NoToolCallsDispatched ==
    /\ \A i \in 1..Len(dispatch.sync_out.messages) : ~dispatch.sync_out.messages[i].tool_calls
    /\ \A i \in 1..Len(dispatch.async_out.messages) : ~dispatch.async_out.messages[i].tool_calls
    /\ (dispatch.sync_in /= NoPrompt /\ dispatch.sync_in = dispatch.async_in) =>
        /\ dispatch.sync_out.messages = dispatch.async_out.messages
        /\ dispatch.sync_out.raised = dispatch.async_out.raised
    /\ (dispatch.sync_in /= NoPrompt /\ ~dispatch.sync_out.raised) =>
        /\ dispatch.sync_out.mode = "completion"
        /\ Len(dispatch.sync_out.messages) =
             IF dispatch.sync_in.is_str THEN 1 ELSE Len(dispatch.sync_in.messages)
    /\ (dispatch.async_in /= NoPrompt /\ ~dispatch.async_out.raised) =>
        /\ dispatch.async_out.mode = "acompletion"
        /\ Len(dispatch.async_out.messages) =
             IF dispatch.async_in.is_str THEN 1 ELSE Len(dispatch.async_in.messages)

C17_Witness ==
    /\ dispatch.sync_in = dispatch.async_in
    /\ ~dispatch.async_in.is_str
    /\ Len(dispatch.async_in.messages) = 2
    /\ dispatch.async_in.messages[1].role = "assistant"
    /\ dispatch.async_in.messages[1].tool_calls
    /\ Len(dispatch.sync_out.messages) = 2
    /\ Len(dispatch.async_out.messages) = 2

\* C18: get_cached_results returns a stored result only when the entry of
\* that name was stored less than one hour (3600 s) before.
C18_FreshOnly ==
    (lookup.made /\ lookup.returned /= None) => (lookup.stored /\ lookup.age < 3600)

GrantedWithin(from, length) ==
    Cardinality({i \in 1..Len(granted) : from <= granted[i] /\ granted[i] < from + length})

C19_WindowBound ==
    /\ \A from \in 0..MaxClock : GrantedWithin(from, limiter.time_window) <= limiter.max_requests
    /\ \A i \in 1..Len(limiter.requests) : \E j \in 1..Len(granted) : granted[j] = limiter.requests[i]
    /\ Len(limiter.requests) <= Len(granted)

C19_OnlyGrantsRecord ==
    (granted' /= granted \/ Len(limiter'.requests) > Len(limiter.requests)) =>
        /\ lastRequest'.op = "make_request"
        /\ lastRequest'.result
        /\ granted' = Append(granted, lastRequest'.at)

\* C19: make_request returns True at most max_requests times in any
\* interval shorter than time_window; a make_request that returns False and
\* a can_make_request record nothing.
C19_RateLimited == []C19_WindowBound /\ [][C19_OnlyGrantsRecord]_vars

C19_Witness ==
    /\ limiter.max_requests = 2
    /\ Len(granted) >= 3
    /\ lastRequest.op = "make_request"
    /\ ~lastRequest.result

====
